---- MODULE Spec2Model ----
(***************************************************************************)
(* A model of the pious PIO assembler / disassembler / linker.             *)
(*                                                                         *)
(* Text is modelled as TLA+ strings and is processed character by          *)
(* character, the way the Go code does: the tokenizer scans the line for   *)
(* separator runs and comments, parseConst reads decimal digits, and the   *)
(* disassembler concatenates the pieces that fmt.Sprint produces.          *)
(* Words are naturals below 2^16; the bit operators work on them bit by    *)
(* bit.                                                                    *)
(***************************************************************************)
EXTENDS Integers, Sequences, FiniteSets, TLC

VARIABLES
    mode,     \* which entry point of the package this behaviour exercises
    pc,       \* position of the caller in its sequence of calls
    word,     \* the 16-bit word handed to Disassemble
    ctx,      \* the *Program passed as context (Nil for a nil pointer)
    lineParts, \* how the caller composed line: [base, side, delay, trail]
    line,     \* the source line handed to Assemble
    dis,      \* result of Disassemble: [err, text]
    asm,      \* result of Assemble: [kind, instr, err, p]
    source,   \* the lines of the source text handed to NewProgram
    prog,     \* result of NewProgram: [kind, p]
    listing,  \* result of Program.Disassemble: [kind, lines]
    prog2,    \* result of NewProgram on the joined listing
    inputs,   \* the programs handed to Cat
    cat       \* result of Cat: [kind, p]

vars == <<mode, pc, word, ctx, lineParts, line, dis, asm, source, prog, listing, prog2, inputs, cat>>

----------------------------------------------------------------------------
(* uint16 arithmetic                                                       *)

WordBits == 16
Pow2(n) == 2 ^ n
WordMod == Pow2(WordBits)

\* Go's a & b on uint16, bit by bit from the low end
RECURSIVE And(_, _)
And(a, b) ==
    IF a = 0 \/ b = 0 THEN 0
    ELSE (a % 2) * (b % 2) + 2 * And(a \div 2, b \div 2)
\* Go's a | b on uint16
Or(a, b) == a + b - And(a, b)
\* Go's a ^ b on uint16
Xor(a, b) == a + b - 2 * And(a, b)
\* Go's a << n on uint16 (a shift count of 16 or more yields 0)
Shl(a, n) == IF n >= WordBits THEN 0 ELSE (a * Pow2(n)) % WordMod
\* Go's a >> n on uint16 (a shift count of 16 or more yields 0)
Shr(a, n) == IF n >= WordBits THEN 0 ELSE a \div Pow2(n)
\* Go's a + b and a - b on uint16
Add16(a, b) == (a + b) % WordMod
\* a subtraction that moves the other way
Sub16_Mut(a, b) == (a + b) % WordMod

Sub16(a, b) == (a - b + WordMod) % WordMod
\* Go's ^a on uint16
Not16(a) == (WordMod - 1) - a

----------------------------------------------------------------------------
(* String helpers (Go string primitives)                                   *)

\* s[i] for a 0-based byte index i
CharAt(s, i) == SubSeq(s, i + 1, i + 1)
\* s[a:b] for 0-based a, b
Slice(s, a, b) == IF a >= b THEN "" ELSE SubSeq(s, a + 1, b)
\* strings.HasPrefix
HasPrefix(s, pre) == Len(s) >= Len(pre) /\ SubSeq(s, 1, Len(pre)) = pre
\* strings.HasSuffix
HasSuffix(s, suf) == Len(s) >= Len(suf) /\ SubSeq(s, Len(s) - Len(suf) + 1, Len(s)) = suf

RECURSIVE JoinFrom(_, _, _)
JoinFrom(parts, sep, i) ==
    IF i > Len(parts) THEN ""
    ELSE IF i = Len(parts) THEN parts[i]
    ELSE parts[i] \o sep \o JoinFrom(parts, sep, i + 1)

\* strings.Join
Join(parts, sep) == JoinFrom(parts, sep, 1)

\* fmt.Sprint of an unsigned integer
Sprint(n) == ToString(n)

Digits == <<"0", "1", "2", "3", "4", "5", "6", "7", "8", "9">>
IsDigit(c) == \E d \in 1..10 : Digits[d] = c
DigitVal(c) == (CHOOSE d \in 1..10 : Digits[d] = c) - 1

\* value accumulated by strconv.Atoi over the digits s[i:]; -1 for a syntax
\* error.  Values above AtoiCap stay above it (parseConst rejects all n > 32,
\* and a range error of Atoi yields an n > 32 as well).
AtoiCap == 1000
RECURSIVE AtoiFrom(_, _, _)
AtoiFrom(s, i, n) ==
    IF i >= Len(s) THEN n
    ELSE IF ~IsDigit(CharAt(s, i)) THEN -1
    ELSE AtoiFrom(s, i + 1, IF n > AtoiCap THEN n ELSE n * 10 + DigitVal(CharAt(s, i)))

\* strconv.Atoi: [err, n]; an optional sign followed by at least one digit
Atoi(s) ==
    LET signed == Len(s) > 0 /\ CharAt(s, 0) \in {"+", "-"}
        body == IF signed THEN Slice(s, 1, Len(s)) ELSE s
    IN
      LET onV(v) ==
          IF Len(body) = 0 \/ v < 0 THEN [err |-> TRUE, n |-> 0]
          ELSE [err |-> FALSE, n |-> IF signed /\ CharAt(s, 0) = "-" THEN 0 - v ELSE v]
      IN  onV(AtoiFrom(body, 0, 0))

----------------------------------------------------------------------------
(* defines.go: the instruction table and the field name tables             *)

idxJMP == 0
idxWAIT == 1
idxIN == 2
idxOUT == 3
idxNOP == 4
idxPUSH == 5
idxMOV1 == 6
idxPULL == 7
idxMOV2 == 8
idxIRQ == 9
idxSET == 10

\* instructions[i + 1] is the Go instructions[i]
instructions == <<
    [token |-> "jmp",  mask |-> 57344, bits |-> 0,     flags |-> {"flagCondition", "flagAddress"}],
    [token |-> "wait", mask |-> 57344, bits |-> 8192,  flags |-> {"flagPolSource", "flagWIndex"}],
    [token |-> "in",   mask |-> 57344, bits |-> 16384, flags |-> {"flagISource", "flagBitCount"}],
    [token |-> "out",  mask |-> 57344, bits |-> 24576, flags |-> {"flagDestination", "flagBitCount"}],
    [token |-> "nop",  mask |-> 57599, bits |-> 32834, flags |-> {}],
    [token |-> "push", mask |-> 57503, bits |-> 32768, flags |-> {"flagIfF", "flagBlk"}],
    [token |-> "mov",  mask |-> 57460, bits |-> 32784, flags |-> {"flagFromXIdxlIndex"}],
    [token |-> "pull", mask |-> 57503, bits |-> 32896, flags |-> {"flagIfE", "flagBlk"}],
    [token |-> "mov",  mask |-> 57344, bits |-> 40960, flags |-> {"flagMDestination", "flagOp", "flagMSource"}],
    [token |-> "irq",  mask |-> 57472, bits |-> 49152, flags |-> {"flagClrWaitIdxModeIndex"}],
    [token |-> "set",  mask |-> 57344, bits |-> 57344, flags |-> {"flagDestination", "flagData"}] >>

NumInstructions == Len(instructions)

\* table[i + 1] is the Go table[i]
disCondition == <<"", "!x", "x--", "!y", "y--", "x!=y", "pin", "!osre">>
disDestinations == <<"pins", "x", "y", "null", "pindirs", "pc", "isr", "exec">>
disMDestinations == <<"pins", "x", "y", "pindirs", "exec", "pc", "isr", "osr">>
disISources == <<"pins", "x", "y", "null", "", "", "isr", "osr">>
disMSources == <<"pins", "x", "y", "null", "", "status", "isr", "osr">>
disBitSource == <<"gpio", "pin", "irq", "jmppin">>

\* the zero value of Settings
ZeroSettings ==
    [Name |-> "", Origin |-> 0, Wrap |-> 0, WrapTarget |-> 0,
     SideSet |-> 0, SideSetOpt |-> FALSE, SideSetPindirs |-> FALSE, Set |-> 0,
     Out |-> 0, OutLeft |-> FALSE, OutAuto |-> FALSE, OutThreshold |-> 0,
     In |-> 0, InLeft |-> FALSE, InAuto |-> FALSE, InThreshold |-> 0]

\* a map with no entries (also the nil map: lookups on both miss)
EmptyMap == <<>>

\* &Program{}: a Program whose fields hold their zero values
ZeroProgram ==
    [nil |-> FALSE, Attr |-> ZeroSettings, Labels |-> EmptyMap, Targets |-> EmptyMap,
     Code |-> <<>>, Modules |-> <<>>]

\* the nil *Program
Nil == [nil |-> TRUE]

----------------------------------------------------------------------------
(* pious.go: Disassemble                                                   *)

\* index (0-based) of the first descriptor matching instr, -1 if none
RECURSIVE MatchFrom(_, _)
MatchFrom(instr, i) ==
    IF i >= NumInstructions THEN -1
    ELSE IF And(instructions[i + 1].mask, instr) = instructions[i + 1].bits THEN i
    ELSE MatchFrom(instr, i + 1)

Piece(s) == [bad |-> FALSE, s |-> s]
BadPiece(s) == [bad |-> TRUE, s |-> s]

disCond(flags, instr) ==
    LET offset == And(7, Shr(instr, 5))
    IN  IF "flagCondition" \in flags /\ offset # 0
        THEN Piece(disCondition[offset + 1] \o " ") ELSE Piece("")

disAddress(flags, instr, p) ==
    LET addr == And(instr, 31)
    IN  IF "flagAddress" \notin flags THEN Piece("")
        ELSE IF ~p.nil /\ addr \in DOMAIN p.Targets THEN Piece(p.Targets[addr][1])
        ELSE Piece(Sprint(addr))

disPolSource(flags, instr) ==
    LET poll == And(Shr(instr, 5), 7)
        index == And(instr, 31)
        src == And(poll, 3)
        head == Sprint(Shr(poll, 2)) \o " " \o disBitSource[src + 1] \o " "
        idxmode == Shr(index, 3)
        index3 == And(index, 7)
    IN  IF "flagPolSource" \in flags THEN
            CASE src \in {0, 1} -> Piece(head \o Sprint(index))
              [] src = 2 ->
                    (CASE idxmode = 0 -> Piece(head \o Sprint(index3))
                       [] idxmode = 1 -> Piece(head \o "prev " \o Sprint(index3))
                       [] idxmode = 2 -> Piece(head \o Sprint(index3) \o " rel")
                       [] idxmode = 3 -> Piece(head \o "next " \o Sprint(index3)))
              [] src = 3 ->
                    IF And(index, 28) # 0 THEN BadPiece("unknown")
                    ELSE Piece(head \o "+ " \o Sprint(index))
        ELSE IF "flagWIndex" \in flags THEN BadPiece("unknown")
        ELSE Piece("")

disISource(flags, instr) ==
    LET src == And(Shr(instr, 5), 7)
        tok == disISources[src + 1]
    IN  IF "flagISource" \notin flags THEN Piece("")
        ELSE IF tok = "" THEN BadPiece("unknown")
        ELSE Piece(tok \o " ")

disIfF(flags, instr) ==
    IF "flagIfF" \in flags /\ And(instr, 64) # 0 THEN Piece("iffull ") ELSE Piece("")

disIfE(flags, instr) ==
    IF "flagIfE" \in flags /\ And(instr, 64) # 0 THEN Piece("ifempty ") ELSE Piece("")

disBlk(flags, instr) ==
    IF "flagBlk" \notin flags THEN Piece("")
    ELSE IF And(instr, 32) # 0 THEN Piece("block") ELSE Piece("noblock")

disDestination(flags, instr, cmd) ==
    LET dest == And(Shr(instr, 5), 7)
    IN  IF "flagDestination" \notin flags THEN Piece("")
        ELSE IF cmd = idxSET /\ (dest = 3 \/ dest >= 5) THEN BadPiece("invalid destination")
        ELSE Piece(disDestinations[dest + 1] \o ", ")

disMDestination(flags, instr) ==
    LET dest == And(Shr(instr, 5), 7)
    IN  IF "flagMDestination" \in flags THEN Piece(disMDestinations[dest + 1] \o ", ")
        ELSE Piece("")

\* a bit count that shows the field as it is, 0 included
disBitCount_Mut(flags, instr) ==
    IF "flagBitCount" \in flags THEN Piece(Sprint(And(instr, 31))) ELSE Piece("")

disBitCount(flags, instr) ==
    LET bc == And(instr, 31)
    IN  IF "flagBitCount" \in flags THEN Piece(Sprint(IF bc = 0 THEN 32 ELSE bc))
        ELSE Piece("")

disOp(flags, instr) ==
    LET op == And(Shr(instr, 3), 3)
    IN  IF "flagOp" \notin flags THEN Piece("")
        ELSE CASE op = 3 -> BadPiece("invalid")
               [] op = 2 -> Piece("::")
               [] op = 1 -> Piece("!")
               [] op = 0 -> Piece("")

\* a mov source that shows the empty entry of the table for the field 0b100
disMSource_Mut(flags, instr) ==
    IF "flagMSource" \notin flags THEN Piece("") ELSE Piece(disMSources[And(instr, 7) + 1])

disMSource(flags, instr) ==
    LET src == And(instr, 7)
    IN  IF "flagMSource" \notin flags THEN Piece("")
        ELSE IF src = 4 THEN BadPiece("invalid")
        ELSE Piece(disMSources[src + 1])

disData(flags, instr) ==
    IF "flagData" \in flags THEN Piece(Sprint(And(instr, 31))) ELSE Piece("")

disFromXIdxlIndex(flags, instr) ==
    IF "flagFromXIdxlIndex" \notin flags THEN Piece("")
    ELSE IF And(instr, 128) # 0 THEN
        \* from rxfifo
        IF And(instr, 8) # 0 THEN Piece("osr, rxfifo[" \o Sprint(And(instr, 3)) \o "]")
        ELSE IF And(instr, 7) # 0 THEN BadPiece("invalid")
        ELSE Piece("osr, rxfifo[y]")
    ELSE
        \* to rxfifo
        IF And(instr, 8) # 0 THEN Piece("rxfifo[" \o Sprint(And(instr, 3)) \o "], isr")
        ELSE IF And(instr, 7) # 0 THEN BadPiece("invalid")
        ELSE Piece("rxfifo[y], isr")

disClrWaitIdxModeIndex(flags, instr) ==
    LET but == IF And(instr, 64) # 0 THEN "clear "
               ELSE IF And(instr, 32) # 0 THEN "wait " ELSE ""
        idxmode == And(Shr(instr, 3), 3)
        index == Sprint(And(instr, 7))
    IN  IF "flagClrWaitIdxModeIndex" \notin flags THEN Piece("")
        ELSE CASE idxmode = 0 -> Piece(but \o index)
               [] idxmode = 1 -> Piece("prev " \o but \o index)
               [] idxmode = 2 -> Piece(but \o index \o " rel")
               [] idxmode = 3 -> Piece("next " \o but \o index)

\* the side-set text of a word under the context's side-set configuration
disSideSet(instr, p) ==
    IF p.nil \/ p.Attr.SideSet = 0 THEN Piece("")
    ELSE IF p.Attr.SideSetOpt THEN
        LET side == Shr(And(instr, 3840), Sub16(12, p.Attr.SideSet))
        IN  IF And(instr, 4096) # 0 THEN Piece("\tside " \o Sprint(side))
            ELSE IF side # 0 THEN BadPiece("invalid opt side-set")
            ELSE Piece("")
    ELSE
        LET side == Shr(And(instr, 7936), Sub16(13, p.Attr.SideSet))
        IN  Piece("\tside " \o Sprint(side))

\* a disassembler that gives the delay all five bits whatever the side-set
disSideMask_Mut(p) == 31

\* the mask of the delay bits left over by the side-set configuration
disSideMask(p) ==
    IF p.nil \/ p.Attr.SideSet = 0 THEN 31
    ELSE Shr(IF p.Attr.SideSetOpt THEN Shr(31, 1) ELSE 31, p.Attr.SideSet)

disDelay(instr, p) ==
    LET delay == And(Shr(instr, 8), disSideMask(p))
    IN  IF delay # 0 THEN Piece(" [" \o Sprint(delay) \o "]") ELSE Piece("")

RECURSIVE FirstBad(_, _)
FirstBad(parts, i) ==
    IF i > Len(parts) THEN 0
    ELSE IF parts[i].bad THEN i ELSE FirstBad(parts, i + 1)

RECURSIVE ConcatPieces(_, _)
ConcatPieces(parts, i) ==
    IF i > Len(parts) THEN "" ELSE parts[i].s \o ConcatPieces(parts, i + 1)

\* Disassemble(instr, p): [err, text]
Disassemble(instr, p) ==
    LET cmd == MatchFrom(instr, 0)
    IN  IF cmd < 0 THEN [err |-> TRUE, text |-> "unknown"]
        ELSE
          LET dec == instructions[cmd + 1]
              f == dec.flags
          IN
            LET parts == << Piece(dec.token \o "\t"),
                          disCond(f, instr), disAddress(f, instr, p),
                          disPolSource(f, instr), disISource(f, instr),
                          disIfF(f, instr), disIfE(f, instr), disBlk(f, instr),
                          disDestination(f, instr, cmd), disMDestination(f, instr),
                          disBitCount(f, instr), disOp(f, instr), disMSource(f, instr),
                          disData(f, instr), disFromXIdxlIndex(f, instr),
                          disClrWaitIdxModeIndex(f, instr),
                          disSideSet(instr, p), disDelay(instr, p) >>
            IN  LET b == FirstBad(parts, 1)
                IN  IF b # 0 THEN [err |-> TRUE, text |-> parts[b].s]
                    ELSE [err |-> FALSE, text |-> ConcatPieces(parts, 1)]

----------------------------------------------------------------------------
(* pious.go: parseConst, tokenizer, Assemble                               *)

\* a parseConst that does not look the token up in consts
parseConst_Mut(token, consts) ==
    LET onA(a) ==
        IF a.n > 32 \/ a.n < 0 THEN [err |-> TRUE, n |-> 0, e |-> "ErrBad"]
        ELSE [err |-> a.err, n |-> a.n, e |-> IF a.err THEN "Atoi" ELSE ""]
    IN  onA(Atoi(token))

\* parseConst(token, consts): [err, n, e]; consts is a map (EmptyMap for nil)
parseConst(token, consts) ==
    IF token \in DOMAIN consts THEN [err |-> FALSE, n |-> consts[token], e |-> ""]
    ELSE LET onA(a) ==
             IF a.n > 32 \/ a.n < 0 THEN [err |-> TRUE, n |-> 0, e |-> "ErrBad"]
             ELSE [err |-> a.err, n |-> a.n, e |-> IF a.err THEN "Atoi" ELSE ""]
         IN  onA(Atoi(token))

\* the characters of the tokenizer's class [, \r\t]
SepChars == {",", " ", "\r", "\t"}

\* end (exclusive, 0-based) of the separator run of s that starts at i
RECURSIVE SepRunEnd(_, _)
SepRunEnd(s, i) ==
    IF i < Len(s) /\ CharAt(s, i) \in SepChars THEN SepRunEnd(s, i + 1) ELSE i

\* tokenizer.Split(s, -1) from scan position i, with the current piece
\* starting at beg and the pieces found so far in acc.  The three
\* alternatives of the expression are tried in order at each position; a
\* comment runs to the end of the line (lines hold no newline).
RECURSIVE SplitFrom(_, _, _, _)
SplitFrom(s, i, beg, acc) ==
    IF i >= Len(s) THEN Append(acc, Slice(s, beg, Len(s)))
    ELSE IF CharAt(s, i) \in SepChars THEN
        LET j == SepRunEnd(s, i)
        IN  SplitFrom(s, j, j, Append(acc, Slice(s, beg, i)))
    ELSE IF (i + 2 <= Len(s) /\ Slice(s, i, i + 2) = "//") \/ CharAt(s, i) = ";" THEN
        SplitFrom(s, Len(s), Len(s), Append(acc, Slice(s, beg, i)))
    ELSE SplitFrom(s, i + 1, beg, acc)

\* tokenizer.Split(code, -1)
tokenizerSplit(s) == IF Len(s) = 0 THEN <<"">> ELSE SplitFrom(s, 0, 0, <<>>)

\* append(tokens[:i], tokens[i+1:]...) for a 0-based i
RemoveAt(tokens, i) == SubSeq(tokens, 1, i) \o SubSeq(tokens, i + 2, Len(tokens))

\* the loop that drops empty tokens: for i := 0; i < len(tokens); i++
RECURSIVE DropEmpty(_, _)
DropEmpty(tokens, i) ==
    IF i >= Len(tokens) THEN tokens
    ELSE IF tokens[i + 1] = "" THEN DropEmpty(RemoveAt(tokens, i), i + 1)
    ELSE DropEmpty(tokens, i + 1)

\* the tokens Assemble and NewProgram work on
Tokens(code) == DropEmpty(tokenizerSplit(code), 0)

\* 0-based index of the first entry of table equal to tok, -1 if none
RECURSIVE IndexFrom(_, _, _, _)
IndexFrom(table, tok, i, skipEmpty) ==
    IF i >= Len(table) THEN -1
    ELSE IF table[i + 1] = tok /\ ~(skipEmpty /\ table[i + 1] = "") THEN i
    ELSE IndexFrom(table, tok, i + 1, skipEmpty)

IndexOf(table, tok) == IndexFrom(table, tok, 0, FALSE)

\* outcomes of the operand part of one descriptor
Go(instr, k, p) == [st |-> "go", instr |-> instr, k |-> k, p |-> p, e |-> ""]
Err(e, p) == [st |-> "err", instr |-> 0, k |-> 0, p |-> p, e |-> e]
Panic(p) == [st |-> "panic", instr |-> 0, k |-> 0, p |-> p, e |-> "index out of range"]
Continue(p) == [st |-> "continue", instr |-> 0, k |-> 0, p |-> p, e |-> ""]

\* tokens[k] for a 0-based k
Tok(tokens, k) == tokens[k + 1]

asmJMP(tokens, instr0, p, labels) ==
    LET j == IndexOf(disCondition, Tok(tokens, 1))
        instr1 == IF j >= 0 THEN Or(instr0, Shl(j, 5)) ELSE instr0
        k == IF j >= 0 THEN 2 ELSE 1
    IN  IF k >= Len(tokens) THEN Panic(p)
        ELSE LET onC(c) ==
                 IF c.err THEN Err(c.e, p)
                 ELSE IF c.n = 32 THEN Err("ErrBad", p)
                 ELSE Go(Or(instr1, c.n), k + 1, p)
             IN  onC(parseConst(Tok(tokens, k), labels))

asmWAITirq(tokens, instr, k, p) ==
    LET onC(c) ==
        IF ~c.err THEN
            IF c.n > 7 THEN Err("ErrBad", p)
            ELSE IF k + 1 < Len(tokens) /\ Tok(tokens, k + 1) = "rel"
                 THEN Go(Or(Or(instr, c.n), 16), k + 2, p)
                 ELSE Go(Or(instr, c.n), k + 1, p)
        ELSE IF Tok(tokens, k) \notin {"prev", "next"} THEN Err("ErrBad", p)
        ELSE LET instr1 == Or(instr, IF Tok(tokens, k) = "prev" THEN 8 ELSE 24)
             IN  IF k + 1 >= Len(tokens) THEN Panic(p)
                 ELSE LET onC2(c2) ==
                          IF c2.err \/ c2.n > 7 THEN Err("ErrBad", p)
                          ELSE Go(Or(instr1, c2.n), k + 2, p)
                      IN  onC2(parseConst(Tok(tokens, k + 1), EmptyMap))
    IN  onC(parseConst(Tok(tokens, k), EmptyMap))

asmWAIT(tokens, instr0, p) ==
    IF Len(tokens) < 3 THEN Err("ErrBad", p)
    ELSE
      LET onPol(pol) ==
          IF ~pol.err /\ pol.n > 1 THEN Err("ErrBad", p)
          ELSE
            LET instr1 == IF ~pol.err THEN Or(instr0, Shl(pol.n, 7)) ELSE instr0
                k1 == IF ~pol.err THEN 2 ELSE 1
            IN  IF k1 >= Len(tokens) THEN Err("ErrBad", p)
                ELSE
                  LET src == IndexOf(disBitSource, Tok(tokens, k1))
                      k == k1 + 1
                      instr == Or(instr1, Shl(src, 5))
                  IN  IF src < 0 \/ k >= Len(tokens) THEN Err("ErrBad", p)
                      ELSE CASE src \in {0, 1} ->
                                  LET onC(c) ==
                                      IF c.err THEN Err(c.e, p)
                                      ELSE IF c.n > 31 THEN Err("ErrBad", p)
                                      ELSE Go(Or(instr, c.n), k + 1, p)
                                  IN  onC(parseConst(Tok(tokens, k), EmptyMap))
                             [] src = 2 -> asmWAITirq(tokens, instr, k, p)
                             [] src = 3 ->
                                  IF k + 2 > Len(tokens) \/ Tok(tokens, k) # "+" THEN Err("ErrBad", p)
                                  ELSE LET onC(c) ==
                                           IF c.err THEN Err(c.e, p)
                                           ELSE IF c.n > 3 THEN Err("ErrBad", p)
                                           ELSE Go(Or(instr, c.n), k + 2, p)
                                       IN  onC(parseConst(Tok(tokens, k + 1), EmptyMap))
      IN  onPol(parseConst(Tok(tokens, 1), EmptyMap))

\* the common body of idxIN and idxOUT; table is the name table searched
asmShift(tokens, instr0, p, labels, table, skipEmpty) ==
    IF Len(tokens) < 3 THEN Err("ErrBad", p)
    ELSE
      LET j == IndexFrom(table, Tok(tokens, 1), 0, skipEmpty)
      IN  IF j < 0 THEN Err("ErrBad", p)
          ELSE LET onC(c) ==
                   IF c.err THEN Err(c.e, p)
                   ELSE IF c.n = 0 THEN Err("ErrBad", p)
                   ELSE Go(Or(Or(instr0, Shl(j, 5)), And(c.n, 31)), 3, p)
               IN  onC(parseConst(Tok(tokens, 2), labels))

asmIN(tokens, instr0, p, labels) == asmShift(tokens, instr0, p, labels, disISources, TRUE)

asmOUT(tokens, instr0, p, labels) == asmShift(tokens, instr0, p, labels, disDestinations, FALSE)

asmNOP(tokens, instr0, p) == Go(instr0, 1, p)

asmPUSHPULL(tokens, instr0, p, i) ==
    LET cond == (i = idxPUSH /\ Tok(tokens, 1) = "iffull")
                  \/ (i = idxPULL /\ Tok(tokens, 1) = "ifempty")
        instr1 == IF cond THEN Or(instr0, 64) ELSE instr0
        k == IF cond THEN 2 ELSE 1
        isNoblock == k < Len(tokens) /\ Tok(tokens, k) = "noblock"
        isBlock == k < Len(tokens) /\ Tok(tokens, k) = "block"
        block == IF isNoblock THEN 0 ELSE 32
    IN  Go(Or(instr1, block), IF isNoblock \/ isBlock THEN k + 1 ELSE k, p)

asmMOV1(tokens, instr0, p) ==
    IF Len(tokens) < 3 THEN Err("ErrBad", p)
    ELSE
      LET to == HasPrefix(Tok(tokens, 1), "rxfifo[")
          from == ~to /\ HasPrefix(Tok(tokens, 2), "rxfifo[")
          fifo == IF to THEN Tok(tokens, 1) ELSE Tok(tokens, 2)
          instr1 == IF from THEN Or(instr0, 128) ELSE instr0
          offset == Slice(fifo, 7, Len(fifo) - 1)
      IN  IF to /\ Tok(tokens, 2) # "isr" THEN Err("ErrBad", p)
          ELSE IF from /\ Tok(tokens, 1) # "osr" THEN Err("ErrBad", p)
          ELSE IF ~to /\ ~from THEN Continue(p)
          ELSE IF CharAt(fifo, Len(fifo) - 1) # "]" THEN Err("ErrBad", p)
          ELSE IF offset = "y" THEN Go(instr1, 3, p)
          ELSE LET onC(c) ==
                   IF c.err \/ c.n > 7 THEN Err("ErrBad", p)
                   ELSE Go(Or(Or(instr1, 8), c.n), 3, p)
               IN  onC(parseConst(offset, EmptyMap))

asmMOV2(tokens, instr0, p) ==
    IF Len(tokens) < 3 THEN Err("ErrBad", p)
    ELSE
      LET d == IndexOf(disMDestinations, Tok(tokens, 1))
          tok == Tok(tokens, 2)
          inv == HasPrefix(tok, "!")
          rev == ~inv /\ HasPrefix(tok, "::")
          instr1 == Or(Or(instr0, Shl(d, 5)), IF inv THEN 8 ELSE IF rev THEN 16 ELSE 0)
          src0 == IF inv THEN Slice(tok, 1, Len(tok))
                  ELSE IF rev THEN Slice(tok, 2, Len(tok)) ELSE ""
          k == IF inv \/ rev THEN 3 ELSE 2
      IN  IF d < 0 THEN Continue(p)
          ELSE IF src0 = "" /\ k >= Len(tokens) THEN Err("ErrBad", p)
          ELSE LET src == IF src0 = "" THEN Tok(tokens, k) ELSE src0
                   k2 == IF src0 = "" THEN k + 1 ELSE k
                   i == IndexOf(disMSources, src)
               IN  Go(IF i >= 0 THEN Or(instr1, i) ELSE instr1, k2, p)

\* p after the lazy default of Settings.Set made by a set to pins
SetDefault(p, i) ==
    IF ~p.nil /\ i = 0 /\ p.Attr.Set = 0 THEN [p EXCEPT !.Attr.Set = 1] ELSE p

asmSET(tokens, instr0, p, labels) ==
    IF Len(tokens) < 3 THEN Err("ErrBad", p)
    ELSE
      LET i == IndexOf(disDestinations, Tok(tokens, 1))
          p1 == SetDefault(p, i)
      IN  IF i < 0 THEN Err("ErrBad", p)
          ELSE LET onC(c) ==
                   IF c.err THEN Err(c.e, p1)
                   ELSE Go(Or(Or(instr0, Shl(i, 5)), c.n), 3, p1)
               IN  onC(parseConst(Tok(tokens, 2), labels))

asmIRQ(tokens, instr0, p) ==
    LET idxMode0 == IF Tok(tokens, 1) = "prev" THEN 1
                    ELSE IF Tok(tokens, 1) = "next" THEN 3 ELSE 0
        k1 == IF idxMode0 # 0 THEN 2 ELSE 1
    IN  IF k1 >= Len(tokens) THEN Err("ErrBad", p)
        ELSE
          LET t == Tok(tokens, k1)
              instr1 == IF t = "clear" THEN Or(instr0, 64)
                        ELSE IF t = "wait" THEN Or(instr0, 32) ELSE instr0
              k2 == IF t \in {"nowait", "set", "clear", "wait"} THEN k1 + 1 ELSE k1
          IN  IF k2 >= Len(tokens) THEN Err("ErrBad", p)
              ELSE
                LET rel == k2 + 1 < Len(tokens) /\ Tok(tokens, k2 + 1) = "rel"
                    idxMode == IF rel THEN 2 ELSE idxMode0
                IN
                  LET onC(c) ==
                      IF c.err THEN Err(c.e, p)
                      ELSE IF c.n > 7 THEN Err("ErrBad", p)
                      ELSE IF rel /\ idxMode0 # 0 THEN Err("ErrBad", p)
                      ELSE Go(Or(Or(instr1, c.n), Shl(idxMode, 3)),
                              IF rel THEN k2 + 2 ELSE k2 + 1, p)
                  IN  onC(parseConst(Tok(tokens, k2), EmptyMap))

\* the switch over the descriptor index i
asmOperands(tokens, i, instr0, p, labels) ==
    CASE i = idxJMP -> asmJMP(tokens, instr0, p, labels)
      [] i = idxWAIT -> asmWAIT(tokens, instr0, p)
      [] i = idxIN -> asmIN(tokens, instr0, p, labels)
      [] i = idxOUT -> asmOUT(tokens, instr0, p, labels)
      [] i = idxNOP -> asmNOP(tokens, instr0, p)
      [] i \in {idxPULL, idxPUSH} -> asmPUSHPULL(tokens, instr0, p, i)
      [] i = idxMOV1 -> asmMOV1(tokens, instr0, p)
      [] i = idxMOV2 -> asmMOV2(tokens, instr0, p)
      [] i = idxSET -> asmSET(tokens, instr0, p, labels)
      [] i = idxIRQ -> asmIRQ(tokens, instr0, p)
      [] OTHER -> Err("ErrBad", p)

\* an assembler that gives the delay all five bits whatever the side-set
asmSideMask_Mut(p) == 31

\* the mask of the delay bits left over by the side-set configuration
asmSideMask(p) ==
    IF p.nil \/ p.Attr.SideSet = 0 THEN 31
    ELSE Shr(IF p.Attr.SideSetOpt THEN Shr(31, 1) ELSE 31, p.Attr.SideSet)

\* a side-set limit that lets the first too-large value through
sideLimit_Mut(p) == Shl(1, p.Attr.SideSet) + 1

\* limit := uint16(1) << p.Attr.SideSet: the first side value that is too large
sideLimit(p) == Shl(1, p.Attr.SideSet)

\* the side-set part: consumes a "side N" pair at k
asmSideSet(tokens, r) ==
    LET p == r.p
        k == r.k
        hasSide == k <= Len(tokens) - 2 /\ Tok(tokens, k) = "side"
    IN  IF p.nil \/ p.Attr.SideSet = 0 THEN [st |-> "go", k |-> k, sideVal |-> 0, e |-> ""]
        ELSE IF hasSide THEN
            LET onC(c) ==
                IF c.err THEN [st |-> "err", k |-> k, sideVal |-> 0, e |-> c.e]
                ELSE IF c.n >= sideLimit(p)
                     THEN [st |-> "err", k |-> k, sideVal |-> 0, e |-> "too large for side-set"]
                ELSE [st |-> "go", k |-> k + 2, e |-> "",
                      sideVal |-> IF p.Attr.SideSetOpt
                                  THEN Or(4096, Shl(c.n, Sub16(12, p.Attr.SideSet)))
                                  ELSE Shl(c.n, Sub16(13, p.Attr.SideSet))]
            IN  onC(parseConst(Tok(tokens, k + 1), EmptyMap))
        ELSE IF ~p.Attr.SideSetOpt
             THEN [st |-> "err", k |-> k, sideVal |-> 0, e |-> "omitted non-optional side-set"]
        ELSE [st |-> "go", k |-> k, sideVal |-> 0, e |-> ""]

IsDelayToken(delay) ==
    Len(delay) >= 3 /\ CharAt(delay, 0) = "[" /\ CharAt(delay, Len(delay) - 1) = "]"

\* the delay part and the final test of k, after the side-set part sd
asmDelay(tokens, r, sd) ==
    LET k == sd.k
        p == r.p
    IN  IF k # Len(tokens) THEN
            IF IsDelayToken(Tok(tokens, k)) THEN
                LET onC(c) ==
                    IF c.err THEN Err(c.e, p)
                    ELSE IF And(c.n, asmSideMask(p)) # c.n THEN Err("ErrBad", p)
                    ELSE Go(Or(Or(r.instr, sd.sideVal), Shl(c.n, 8)), k + 1, p)
                IN  onC(parseConst(Slice(Tok(tokens, k), 1, Len(Tok(tokens, k)) - 1), EmptyMap))
            ELSE Go(r.instr, k, p)
        ELSE Go(Or(r.instr, sd.sideVal), k, p)

Ok(instr, p) == [kind |-> "ok", instr |-> instr, err |-> "", p |-> p]
Fail(e, p) == [kind |-> "err", instr |-> 0, err |-> e, p |-> p]
Abort(p) == [kind |-> "panic", instr |-> 0, err |-> "index out of range", p |-> p]

\* the loop over the descriptors, from descriptor i on
RECURSIVE asmFrom(_, _, _)
asmFrom(tokens, i, p) ==
    IF i >= NumInstructions THEN Fail("ErrBad", p)
    ELSE
      LET dec == instructions[i + 1]
          labels == IF p.nil THEN EmptyMap ELSE p.Labels
      IN  IF Tok(tokens, 0) # dec.token THEN asmFrom(tokens, i + 1, p)
          ELSE IF dec.flags = {} /\ Len(tokens) = 1 THEN Ok(dec.bits, p)
          ELSE IF Len(tokens) = 1 THEN Fail("ErrBad", p)
          ELSE
            LET onR(r) ==
                CASE r.st = "err" -> Fail(r.e, r.p)
                  [] r.st = "panic" -> Abort(r.p)
                  [] r.st = "continue" -> asmFrom(tokens, i + 1, r.p)
                  [] r.st = "go" ->
                       LET onSd(sd) ==
                           IF sd.st = "err" THEN Fail(sd.e, r.p)
                           ELSE LET onD(d) ==
                                    CASE d.st = "err" -> Fail(d.e, d.p)
                                      [] d.st = "go" /\ d.k # 1 -> Ok(d.instr, d.p)
                                      [] OTHER -> asmFrom(tokens, i + 1, d.p)
                                IN  onD(asmDelay(tokens, r, sd))
                       IN  onSd(asmSideSet(tokens, r))
            IN  onR(asmOperands(tokens, i, dec.bits, p, labels))

\* Assemble on the tokens of a line
AssembleTokens(tokens, p) ==
    IF Len(tokens) = 0 THEN Fail("ErrEmpty", p) ELSE asmFrom(tokens, 0, p)

\* Assemble(code, p): [kind, instr, err, p]; p is the Program after the call
Assemble(code, p) == AssembleTokens(Tokens(code), p)

----------------------------------------------------------------------------
(* pious.go: buildTargets, NewProgram, Program.Disassemble                 *)

\* the bytes that occur in tokens, in increasing byte order
ByteOrder == "!#$%&()*+-.0123456789:<=>?@ABCDEFGHIJKLMNOPQRSTUVWXYZ[]^_abcdefghijklmnopqrstuvwxyz{|}~"

\* position of the one-byte string c in ByteOrder
ByteRank(c) == CHOOSE i \in 1..Len(ByteOrder) : SubSeq(ByteOrder, i, i) = c

\* a < b in Go's string order (bytewise, a proper prefix first)
RECURSIVE StrLessFrom(_, _, _)
StrLessFrom(a, b, i) ==
    IF i >= Len(b) THEN FALSE
    ELSE IF i >= Len(a) THEN TRUE
    ELSE IF CharAt(a, i) = CharAt(b, i) THEN StrLessFrom(a, b, i + 1)
    ELSE ByteRank(CharAt(a, i)) < ByteRank(CharAt(b, i))

StrLess(a, b) == StrLessFrom(a, b, 0)

\* sort.Strings of the names in S
RECURSIVE SortStrings(_)
SortStrings(S) ==
    IF S = {} THEN <<>>
    ELSE LET m == CHOOSE x \in S : \A y \in S : x = y \/ StrLess(x, y)
         IN  <<m>> \o SortStrings(S \ {m})

\* a sort that leaves the names of an offset in descending order
RECURSIVE SortStrings_Mut(_)
SortStrings_Mut(S) ==
    IF S = {} THEN <<>>
    ELSE LET m == CHOOSE x \in S : \A y \in S : x = y \/ StrLess(y, x)
         IN  <<m>> \o SortStrings_Mut(S \ {m})

\* an inverse of labels that sorts each list of names the wrong way round
buildTargets_Mut(labels) ==
    [addr \in {labels[l] : l \in DOMAIN labels} |->
        SortStrings_Mut({l \in DOMAIN labels : labels[l] = addr})]

\* p.buildTargets(): the inverse of labels, each list of names sorted
buildTargets(labels) ==
    [addr \in {labels[l] : l \in DOMAIN labels} |->
        SortStrings({l \in DOMAIN labels : labels[l] = addr})]

\* m[key] = val on a map
MapPut(m, key, val) == [k \in DOMAIN m \cup {key} |-> IF k = key THEN val ELSE m[k]]

\* strings.Split(s, "\n") from position i, the current line starting at beg
\* the pieces of s from offset beg on, cut at each "\n"
RECURSIVE SplitLinesFrom(_, _, _)
SplitLinesFrom(s, beg, acc) ==
    LET nl == {j \in beg..(Len(s) - 1) : CharAt(s, j) = "\n"}
    IN  IF nl = {} THEN Append(acc, Slice(s, beg, Len(s)))
        ELSE LET i == CHOOSE j \in nl : \A k \in nl : j <= k
             IN  SplitLinesFrom(s, i + 1, Append(acc, Slice(s, beg, i)))

\* strings.Split(source, "\n")
SplitLines(s) == SplitLinesFrom(s, 0, <<>>)

\* the sentinel of an unset wrap and wrapTarget
WrapUnset == 65535

\* the state of NewProgram's loop: code, wrap, wrapTarget and the Program p
CompileState(st, code, wrap, wrapTarget, p) ==
    [st |-> st, code |-> code, wrap |-> wrap, wrapTarget |-> wrapTarget, p |-> p]

\* the .side_set case
dirSideSet(tokens, c) ==
    LET n == parseConst(Tok(tokens, 1), EmptyMap)
        opt == Len(tokens) > 2 /\ Tok(tokens, 2) = "opt"
        k == IF opt THEN 3 ELSE 2
        p1 == [c.p EXCEPT !.Attr.SideSet = n.n,
                          !.Attr.SideSetOpt = IF opt THEN TRUE ELSE @]
    IN  IF Len(tokens) < 2 \/ Len(c.code) # 0 THEN [c EXCEPT !.st = "err"]
        ELSE IF n.err THEN [c EXCEPT !.st = "err"]
        ELSE IF opt /\ n.n > 4 THEN [c EXCEPT !.st = "err"]
        ELSE IF ~opt /\ n.n > 5 THEN [c EXCEPT !.st = "err"]
        ELSE IF Len(tokens) = k THEN [c EXCEPT !.p = p1]
        ELSE IF Tok(tokens, k) # "pindirs" THEN [c EXCEPT !.st = "err"]
        ELSE IF Len(tokens) > k + 1 THEN [c EXCEPT !.st = "err"]
        ELSE [c EXCEPT !.p = [p1 EXCEPT !.Attr.SideSetPindirs = TRUE]]

\* a .set case that does not look at the code assembled so far
dirSet_Mut(tokens, c) ==
    IF Len(tokens) # 2 THEN [c EXCEPT !.st = "err"]
    ELSE [c EXCEPT !.p.Attr.Set = 3]

\* the .set case
dirSet(tokens, c) ==
    IF Len(tokens) # 2 \/ Len(c.code) # 0 THEN [c EXCEPT !.st = "err"]
    ELSE LET onN(n) ==
             IF n.err \/ n.n > 5 THEN [c EXCEPT !.st = "err"]
             ELSE [c EXCEPT !.p.Attr.Set = n.n]
         IN  onN(parseConst(Tok(tokens, 1), EmptyMap))

\* the common body of the .in and .out cases: [err, n, left, setLeft, threshold, setThreshold]
dirShift(tokens, c) ==
    LET bad == [err |-> TRUE, n |-> 0, setLeft |-> FALSE, left |-> FALSE,
                setThreshold |-> FALSE, threshold |-> 0]
    IN  IF Len(c.code) # 0 \/ Len(tokens) < 2 THEN bad
        ELSE
          LET n == parseConst(Tok(tokens, 1), EmptyMap)
              dir == Len(tokens) > 2 /\ Tok(tokens, 2) \in {"left", "right"}
              k == IF dir THEN 3 ELSE 2
              good == [err |-> FALSE, n |-> n.n, setLeft |-> dir,
                       left |-> dir /\ Tok(tokens, 2) = "left",
                       setThreshold |-> FALSE, threshold |-> 0]
          IN  IF n.err \/ n.n = 0 THEN bad
              ELSE IF Len(tokens) = k THEN good
              ELSE IF Tok(tokens, k) # "auto" THEN bad
              ELSE IF k + 1 = Len(tokens) THEN good
              ELSE LET onT(t) ==
                       IF t.err \/ t.n = 0 THEN bad
                       ELSE IF k + 2 # Len(tokens) THEN bad
                       ELSE [good EXCEPT !.setThreshold = TRUE,
                                         !.threshold = IF t.n = 32 THEN 0 ELSE t.n]
                   IN  onT(parseConst(Tok(tokens, k + 1), EmptyMap))

\* the .out case
dirOut(tokens, c) ==
    LET onD(d) ==
        IF d.err THEN [c EXCEPT !.st = "err"]
        ELSE [c EXCEPT !.p.Attr.Out = d.n,
                       !.p.Attr.OutLeft = IF d.setLeft THEN d.left ELSE @,
                       !.p.Attr.OutThreshold = IF d.setThreshold THEN d.threshold ELSE @]
    IN  onD(dirShift(tokens, c))

\* the .in case
dirIn(tokens, c) ==
    LET onD(d) ==
        IF d.err THEN [c EXCEPT !.st = "err"]
        ELSE [c EXCEPT !.p.Attr.In = d.n,
                       !.p.Attr.InLeft = IF d.setLeft THEN d.left ELSE @,
                       !.p.Attr.InThreshold = IF d.setThreshold THEN d.threshold ELSE @]
    IN  onD(dirShift(tokens, c))

\* a label case that lets a second declaration replace the first
dirLabel_Mut(tokens, c) ==
    IF Len(tokens) # 1 \/ ~HasSuffix(Tok(tokens, 0), ":") THEN [c EXCEPT !.st = "err"]
    ELSE [c EXCEPT !.p.Labels = MapPut(@, Slice(Tok(tokens, 0), 0, Len(Tok(tokens, 0)) - 1),
                                       Len(c.code))]

\* the default case: an empty token or a label declaration
dirLabel(tokens, c) ==
    LET t == Tok(tokens, 0)
        label == Slice(t, 0, Len(t) - 1)
    IN  IF t = "" THEN c
        ELSE IF Len(tokens) # 1 \/ ~HasSuffix(t, ":") THEN [c EXCEPT !.st = "err"]
        ELSE IF label = "" THEN [c EXCEPT !.st = "err"]
        ELSE IF label \in DOMAIN c.p.Labels THEN [c EXCEPT !.st = "err"]
        ELSE [c EXCEPT !.p.Labels = MapPut(@, label, Len(c.code))]

\* a line that Assemble rejected, interpreted as a directive or a label
compileDirective(tokens, c) ==
    IF Len(tokens) = 0 THEN c
    ELSE
      CASE Tok(tokens, 0) = ".program" ->
                IF Len(tokens) # 2 THEN [c EXCEPT !.st = "err"]
                ELSE [c EXCEPT !.p.Attr.Name = Tok(tokens, 1)]
        [] Tok(tokens, 0) = ".wrap" ->
                IF Len(tokens) # 1 \/ c.wrap # WrapUnset THEN [c EXCEPT !.st = "err"]
                ELSE [c EXCEPT !.wrap = Sub16(Len(c.code), 1)]
        [] Tok(tokens, 0) = ".wrap_target" ->
                IF Len(tokens) # 1 \/ c.wrapTarget # WrapUnset THEN [c EXCEPT !.st = "err"]
                ELSE [c EXCEPT !.wrapTarget = Len(c.code)]
        [] Tok(tokens, 0) = ".origin" ->
                IF Len(tokens) # 1 THEN [c EXCEPT !.st = "err"]
                ELSE [c EXCEPT !.p.Attr.Origin = Len(c.code)]
        [] Tok(tokens, 0) = ".side_set" -> dirSideSet(tokens, c)
        [] Tok(tokens, 0) = ".set" -> dirSet(tokens, c)
        [] Tok(tokens, 0) = ".out" -> dirOut(tokens, c)
        [] Tok(tokens, 0) = ".in" -> dirIn(tokens, c)
        [] OTHER -> dirLabel(tokens, c)

\* one iteration of NewProgram's loop, on the line text
compileLine(text, c) ==
    LET onR(r) ==
        CASE r.kind = "panic" -> [c EXCEPT !.st = "panic"]
          [] r.kind = "ok" -> [c EXCEPT !.code = Append(@, r.instr), !.p = r.p]
          [] OTHER -> compileDirective(Tokens(text), [c EXCEPT !.p = r.p])
    IN  onR(Assemble(text, c.p))

\* NewProgram's loop over lines[i..]
RECURSIVE compileFrom(_, _, _)
compileFrom(lines, i, c) ==
    IF i > Len(lines) \/ c.st # "ok" THEN c
    ELSE compileFrom(lines, i + 1, compileLine(lines[i], c))

\* NewProgram(source): [kind, p]
NewProgram(src) ==
    LET onC(c) ==
        IF c.st # "ok" THEN [kind |-> c.st, p |-> Nil]
        ELSE [kind |-> "ok",
              p |-> [c.p EXCEPT !.Targets = buildTargets(c.p.Labels),
                                !.Attr.Wrap = IF c.wrap = WrapUnset THEN Len(c.code) ELSE c.wrap,
                                !.Attr.WrapTarget = IF c.wrapTarget = WrapUnset THEN 0 ELSE c.wrapTarget,
                                !.Code = c.code]]
    IN  onC(compileFrom(SplitLines(src), 1, CompileState("ok", <<>>, WrapUnset, WrapUnset, ZeroProgram)))

\* the label lines "sym:" of the names that Targets lists for offset i
LabelLines(p, i) ==
    IF i \in DOMAIN p.Targets
    THEN [j \in 1..Len(p.Targets[i]) |-> p.Targets[i][j] \o ":"]
    ELSE <<>>

\* the " auto N" suffix of an .in or .out line
AutoSuffix(threshold) == IF threshold # 0 THEN " auto " \o Sprint(threshold) ELSE ""

\* the directive lines that open a listing
listingHeader(p) ==
    <<".program " \o p.Attr.Name>>
      \o (IF p.Attr.In # 0
          THEN <<".in " \o Sprint(p.Attr.In) \o (IF p.Attr.InLeft THEN " left" ELSE " right")
                   \o AutoSuffix(p.Attr.InThreshold)>>
          ELSE <<>>)
      \o (IF p.Attr.Out # 0
          THEN <<".out " \o Sprint(p.Attr.Out) \o (IF p.Attr.OutLeft THEN " left" ELSE " right")
                   \o AutoSuffix(p.Attr.OutThreshold)>>
          ELSE <<>>)
      \o (IF p.Attr.SideSet # 0
          THEN <<".side_set " \o Sprint(p.Attr.SideSet)
                   \o (IF p.Attr.SideSetOpt THEN " opt" ELSE "")
                   \o (IF p.Attr.SideSetPindirs THEN " pindirs" ELSE "")>>
          ELSE <<>>)
      \o (IF p.Attr.Set # 0 THEN <<".set " \o Sprint(p.Attr.Set)>> ELSE <<>>)

\* the lines of the listing for code offset i (0-based), text being the
\* disassembled instruction
listingAt(p, i, text) ==
    (IF i = p.Attr.WrapTarget THEN <<".wrap_target">> ELSE <<>>)
      \o (IF i = p.Attr.Origin /\ p.Attr.Origin # 0 THEN <<".origin">> ELSE <<>>)
      \o LabelLines(p, i)
      \o <<"\t" \o text>>
      \o (IF i = p.Attr.Wrap THEN <<".wrap">> ELSE <<>>)

\* the loop over p.Code from offset i on: [kind, lines]
RECURSIVE listingFrom(_, _, _)
listingFrom(p, i, acc) ==
    IF i >= Len(p.Code) THEN [kind |-> "ok", lines |-> acc]
    ELSE LET onD(d) ==
             IF d.err THEN [kind |-> "panic", lines |-> acc]
             ELSE listingFrom(p, i + 1, acc \o listingAt(p, i, d.text))
         IN  onD(Disassemble(p.Code[i + 1], p))

\* p.Disassemble(): [kind, lines]
ProgramDisassemble(p) ==
    LET onBody(body) ==
        IF body.kind # "ok" THEN body
        ELSE [kind |-> "ok",
              lines |-> body.lines \o LabelLines(p, Len(p.Code))
                          \o (IF p.Attr.Wrap = Len(p.Code) THEN <<".wrap">> ELSE <<>>)]
    IN  onBody(listingFrom(p, 0, listingHeader(p)))

----------------------------------------------------------------------------
(* pious.go: jumpCodeAdjust, Cat                                           *)

\* a relocation that lets the address carry into the condition bits
jumpCodeAdjust_Mut(code, delta) ==
    IF And(code, 57344) # 0 THEN code ELSE Add16(code, delta)

\* jumpCodeAdjust(code, delta)
jumpCodeAdjust(code, delta) ==
    LET ins == instructions[idxJMP + 1]
    IN  IF And(code, ins.mask) # ins.bits THEN code
        ELSE LET is == Add16(And(code, 31), delta)
             IN  Or(And(is, 31), And(code, Not16(31)))

\* the Settings snapshot that Cat appends to Modules for input p at offset
catModule(p, offset) ==
    [p.Attr EXCEPT !.Origin = Add16(offset, p.Attr.Origin),
                   !.Wrap = Add16(offset, p.Attr.Wrap),
                   !.WrapTarget = Add16(offset, p.Attr.WrapTarget)]

\* the labels of input p renamed and offset, written into labels in some
\* order of p.Labels (the names left to write are in todo; distinct names
\* give distinct keys, so the order does not matter)
RECURSIVE catRename(_, _, _, _, _)
catRename(labels, p, i, offset, todo) ==
    IF todo = {} THEN labels
    ELSE LET l == CHOOSE x \in todo : TRUE
         IN  catRename(MapPut(labels, p.Attr.Name \o Sprint(i) \o "_" \o l,
                              Add16(offset, p.Labels[l])),
                       p, i, offset, todo \ {l})

\* the merged labels after input p (index i, 0-based) at offset
catLabels(labels, p, i, offset) ==
    LET pre == p.Attr.Name \o Sprint(i)
        l1 == MapPut(labels, pre \o "_origin", Add16(offset, p.Attr.Origin))
        l2 == MapPut(l1, pre \o "_wrap", Add16(offset, p.Attr.Wrap))
        l3 == MapPut(l2, pre \o "_wrap_target", Add16(offset, p.Attr.WrapTarget))
    IN  catRename(l3, p, i, offset, DOMAIN p.Labels)

\* the code of input p relocated by offset
catCode(p, offset) == [k \in 1..Len(p.Code) |-> jumpCodeAdjust(p.Code[k], offset)]

\* Cat's loop over ps[i..] (i is 1-based here, the Go index is i - 1)
RECURSIVE catFrom(_, _, _, _)
catFrom(ps, i, offset, merged) ==
    IF i > Len(ps) THEN merged
    ELSE LET p == ps[i]
         IN  catFrom(ps, i + 1, Add16(offset, Len(p.Code)),
                     [merged EXCEPT !.Labels = catLabels(@, p, i - 1, offset),
                                    !.Code = @ \o catCode(p, offset),
                                    !.Modules = Append(@, catModule(p, offset))])

\* a capacity check that accepts 33 instructions
catTooLong_Mut(code) == Len(code) > 33

\* len(prog.Code) > 32
catTooLong(code) == Len(code) > 32

\* Cat(name, ps...): [kind, p]
Cat(name, ps) ==
    LET onMerged(merged) ==
        IF catTooLong(merged.Code) THEN [kind |-> "err", p |-> Nil]
        ELSE [kind |-> "ok",
              p |-> [merged EXCEPT !.Targets = buildTargets(merged.Labels),
                                   !.Attr.Wrap = Len(merged.Code)]]
    IN  onMerged(catFrom(ps, 1, 0, [ZeroProgram EXCEPT !.Attr.Name = name]))

----------------------------------------------------------------------------
(* Callers.  Each specification below exercises one entry point of the      *)
(* package the way its callers do; the variables a specification does not   *)
(* use keep their initial values.                                           *)

NoParts == [base |-> "", side |-> -1, delay |-> -1, trail |-> ""]
NoDis == [err |-> FALSE, text |-> ""]
NoAsm == [kind |-> "none", instr |-> 0, err |-> "", p |-> Nil]
NoProg == [kind |-> "none", p |-> Nil]
NoListing == [kind |-> "none", lines |-> <<>>]

\* a Program literal that sets only the side-set fields of its Settings
SideSetProgram(n, opt) ==
    [ZeroProgram EXCEPT !.Attr.SideSet = n, !.Attr.SideSetOpt = opt]

\* the three contexts of TestAssemble
TestContexts == {Nil, SideSetProgram(1, FALSE), SideSetProgram(2, TRUE)}

\* all 16-bit words
Words == 0..(WordMod - 1)

InitWord ==
    /\ mode = "word"
    /\ pc = "start"
    /\ word \in Words
    /\ ctx \in TestContexts
    /\ lineParts = NoParts
    /\ line = ""
    /\ dis = NoDis
    /\ asm = NoAsm
    /\ source = ""
    /\ prog = NoProg
    /\ listing = NoListing
    /\ prog2 = NoProg
    /\ inputs = <<>>
    /\ cat = NoProg

\* d, err := Disassemble(uint16(i), p)
DisassembleWord ==
    /\ mode = "word"
    /\ pc = "start"
    /\ dis' = Disassemble(word, ctx)
    /\ pc' = "disassembled"
    /\ UNCHANGED <<mode, word, ctx, lineParts, line, asm, source, prog, listing, prog2, inputs, cat>>

\* ts, err := Assemble(d, p), for a d that Disassemble returned without error
AssembleText ==
    /\ mode = "word"
    /\ pc = "disassembled"
    /\ ~dis.err
    /\ line' = dis.text
    /\ asm' = Assemble(dis.text, ctx)
    /\ ctx' = asm'.p
    /\ pc' = "assembled"
    /\ UNCHANGED <<mode, word, lineParts, dis, source, prog, listing, prog2, inputs, cat>>

NextWord == DisassembleWord \/ AssembleText

SpecWord == InitWord /\ [][NextWord]_vars

----------------------------------------------------------------------------
(* Assemble on single lines (SpecLine): lines are composed of an            *)
(* instruction, an optional "side N" pair, an optional "[n]" delay and an   *)
(* optional trailing text.                                                  *)

\* largest number written as a side value or a delay
MaxOperand == 33

\* the numbers written as operands: the small ones and those next to a
\* power of two, where the field widths decide
OperandVals ==
    {n \in 0..MaxOperand : n <= 4 \/ n = MaxOperand \/ \E e \in 3..5 : n = Pow2(e) \/ n + 1 = Pow2(e)}

\* instruction texts that fully parse as an instruction with no context
ValidBases ==
    {"jmp 3", "jmp x-- 4", "wait 1 gpio 3", "wait 1 irq prev 2", "wait 1 jmppin + 2",
     "in pins, 8", "out y, 32", "nop", "push iffull block", "pull block",
     "mov rxfifo[y], isr", "mov x, !null", "mov x, y", "irq prev clear 3",
     "irq wait 2 rel", "set pins, 1"}

\* wait instructions written without the polarity argument
WaitNoPolarity == {"wait gpio 3", "wait irq 2"}

\* instruction texts cut short after an operand keyword
TruncatedBases == {"jmp x--", "wait irq prev", "wait 1 irq next", "irq prev", "mov x, !"}

\* other texts: unknown mnemonics and operands, the empty line, a blank
\* line, a comment
OtherBases ==
    {"", " ", "; c", "frob 1", "mov x, foo", "set null, 1", "set exec, 1", "mov rxfifo[4], isr",
     "set pins, 32", "set pins, foo"}

Bases == ValidBases \cup WaitNoPolarity \cup TruncatedBases \cup OtherBases

\* texts that follow the instruction, its side pair and its delay
Trails == {"", " foo", " // c"}

\* side-set widths a context may declare
MaxSideSet == 5

\* the contexts: nil, and a Program for each side-set width, optional or not
LineContexts ==
    {Nil} \cup {SideSetProgram(w, opt) : w \in 1..MaxSideSet, opt \in BOOLEAN}

\* the text of a line composed of the parts pt
ComposeLine(pt) ==
    pt.base
      \o (IF pt.side >= 0 THEN " side " \o Sprint(pt.side) ELSE "")
      \o (IF pt.delay >= 0 THEN " [" \o Sprint(pt.delay) \o "]" ELSE "")
      \o pt.trail

InitLine ==
    /\ mode = "line"
    /\ pc = "start"
    /\ word = 0
    /\ ctx \in LineContexts
    /\ lineParts \in [base : Bases, side : {-1} \cup OperandVals,
                  delay : {-1} \cup OperandVals, trail : Trails]
    /\ line = ComposeLine(lineParts)
    /\ dis = NoDis
    /\ asm = NoAsm
    /\ source = ""
    /\ prog = NoProg
    /\ listing = NoListing
    /\ prog2 = NoProg
    /\ inputs = <<>>
    /\ cat = NoProg

\* instr, err := Assemble(line, p); p is modified in place
AssembleLine ==
    /\ mode = "line"
    /\ pc = "start"
    /\ asm' = Assemble(line, ctx)
    /\ ctx' = asm'.p
    /\ pc' = "assembled"
    /\ UNCHANGED <<mode, word, lineParts, line, dis, source, prog, listing, prog2, inputs, cat>>

NextLine == AssembleLine

SpecLine == InitLine /\ [][NextLine]_vars

----------------------------------------------------------------------------
(* NewProgram and Program.Disassemble on source texts (SpecProg): the       *)
(* caller compiles a source, renders the Program and compiles the listing.  *)

\* most lines of a source text
MaxLines == 3

\* the lines a source text is made of
SourceLines ==
    {".program a", ".wrap", ".wrap_target", ".origin", ".side_set 1", ".side_set 2 opt",
     ".side_set 5", ".set 3", ".in 8 left auto 32", ".out 32 right auto 8", "a:", "b:",
     "nop", "jmp a", "jmp 1", "set pins, 1", "nop side 1"}

\* the source texts: up to MaxLines lines joined by newlines
Sources == {Join(ls, "\n") : ls \in UNION {[1..n -> SourceLines] : n \in 0..MaxLines}}

InitProg ==
    /\ mode = "prog"
    /\ pc = "start"
    /\ word = 0
    /\ ctx = Nil
    /\ lineParts = NoParts
    /\ line = ""
    /\ dis = NoDis
    /\ asm = NoAsm
    /\ source \in Sources
    /\ prog = NoProg
    /\ listing = NoListing
    /\ prog2 = NoProg
    /\ inputs = <<>>
    /\ cat = NoProg

\* p, err := pious.NewProgram(string(text))
Compile ==
    /\ mode = "prog"
    /\ pc = "start"
    /\ prog' = NewProgram(source)
    /\ pc' = "compiled"
    /\ UNCHANGED <<mode, word, ctx, lineParts, line, dis, asm, source, listing, prog2, inputs, cat>>

\* p.Disassemble(), on a Program that NewProgram returned
Render ==
    /\ mode = "prog"
    /\ pc = "compiled"
    /\ prog.kind = "ok"
    /\ listing' = ProgramDisassemble(prog.p)
    /\ pc' = "rendered"
    /\ UNCHANGED <<mode, word, ctx, lineParts, line, dis, asm, source, prog, prog2, inputs, cat>>

\* NewProgram(strings.Join(p.Disassemble(), "\n"))
Recompile ==
    /\ mode = "prog"
    /\ pc = "rendered"
    /\ listing.kind = "ok"
    /\ prog2' = NewProgram(Join(listing.lines, "\n"))
    /\ pc' = "recompiled"
    /\ UNCHANGED <<mode, word, ctx, lineParts, line, dis, asm, source, prog, listing, inputs, cat>>

NextProg == Compile \/ Render \/ Recompile

SpecProg == InitProg /\ [][NextProg]_vars

----------------------------------------------------------------------------
(* Cat on compiled programs (SpecCat): the caller compiles several source  *)
(* texts with NewProgram and links the Programs.                            *)

\* most inputs of one Cat call
MaxInputs == 3

\* longest input program, in instructions
MaxCatLen == 33

\* the lengths of the input programs
CatLens == {0, 2, 3, 15, 17, 30, 32, MaxCatLen}

\* line k (1-based) of a generated source: jumps to earlier and later
\* offsets, with and without a condition, between set instructions
MixedLine(k) ==
    IF k % 2 = 0 THEN "set x, " \o Sprint(k % 32)
    ELSE IF k % 4 = 1 THEN "jmp " \o Sprint((k * 7) % 32)
    ELSE "jmp x-- " \o Sprint((k + 28) % 32)

\* a source of n instructions with labels at its start and its end
MixedSource(n) ==
    Join(<<".program a", "top:", ".wrap_target">> \o [k \in 1..n |-> MixedLine(k)] \o <<"end:">>, "\n")

\* a source of n jumps, each to the offset after its own
JumpSource(n) ==
    Join(<<".program b">> \o [k \in 1..n |-> "jmp " \o Sprint(k % 32)] \o <<".wrap">>, "\n")

\* a source whose labels carry the names Cat gives its own entries, and
\* two labels on one offset
LabelSource ==
    Join(<<".program c", "nop", "origin:", "jmp origin", "wrap:", "mid:", "jmp 1", "jmp 3">>, "\n")

\* a source that jumps to the label at the end of its code
EndSource == Join(<<".program d", "jmp 2", "nop", "end:">>, "\n")

\* the source texts of the programs handed to Cat
CatSources ==
    {MixedSource(n) : n \in CatLens} \cup {JumpSource(n) : n \in {2, 3}}
      \cup {LabelSource, EndSource}

\* the Programs handed to Cat, each the result of NewProgram
CatPrograms == {NewProgram(src).p : src \in CatSources}

InitCat ==
    /\ mode = "cat"
    /\ pc = "start"
    /\ word = 0
    /\ ctx = Nil
    /\ lineParts = NoParts
    /\ line = ""
    /\ dis = NoDis
    /\ asm = NoAsm
    /\ source = ""
    /\ prog = NoProg
    /\ listing = NoListing
    /\ prog2 = NoProg
    /\ inputs \in UNION {[1..n -> CatPrograms] : n \in 0..MaxInputs}
    /\ cat = NoProg

\* p, err = pious.Cat(title, ps...)
Link ==
    /\ mode = "cat"
    /\ pc = "start"
    /\ cat' = Cat("combined", inputs)
    /\ pc' = "linked"
    /\ UNCHANGED <<mode, word, ctx, lineParts, line, dis, asm, source, prog, listing, prog2, inputs>>

\* for _, line := range p.Disassemble() on the merged program
RenderCat ==
    /\ mode = "cat"
    /\ pc = "linked"
    /\ cat.kind = "ok"
    /\ listing' = ProgramDisassemble(cat.p)
    /\ pc' = "listed"
    /\ UNCHANGED <<mode, word, ctx, lineParts, line, dis, asm, source, prog, prog2, inputs, cat>>

NextCat == Link \/ RenderCat

SpecCat == InitCat /\ [][NextCat]_vars

----------------------------------------------------------------------------
(* Properties of the word round trip (SpecWord)                            *)

\* an irq-family word with the clear bit (bit 6) set
IsIrqClear(w) == And(w, Or(instructions[idxIRQ + 1].mask, 64)) = Or(instructions[idxIRQ + 1].bits, 64)

\* C1: every word that Disassemble renders under one of the three test
\* configurations is returned by Assemble on that text, except that for an
\* irq word with the clear bit set the result may differ in the wait bit
\* (bit 5) only.
C1_RoundTrip ==
    (mode = "word" /\ pc = "assembled") =>
        /\ asm.kind = "ok"
        /\ \/ asm.instr = word
           \/ (IsIrqClear(word) /\ Xor(asm.instr, word) = 32)

\* a word with a side-set value and a delay, under the optional side-set
\* configuration, has been rendered and assembled back
C1_Witness ==
    /\ mode = "word" /\ pc = "assembled"
    /\ ~ctx.nil /\ ctx.Attr.SideSetOpt
    /\ And(word, 4096) # 0 /\ And(word, 768) # 0
    /\ asm.kind = "ok" /\ asm.instr = word

----------------------------------------------------------------------------
(* Properties of Assemble on single lines (SpecLine)                       *)

Assembled == mode = "line" /\ pc = "assembled"

\* the context declares a nonzero side-set width
HasSideSet(p) == ~p.nil /\ p.Attr.SideSet > 0
SideWidth(p) == IF p.nil THEN 0 ELSE p.Attr.SideSet
SideOpt(p) == ~p.nil /\ p.Attr.SideSetOpt

\* C5: Assemble returns a word or an error value for every line and
\* configuration; it never aborts.
C5_NoAbort == Assembled => asm.kind \in {"ok", "err"}

\* C6: a line that has a token left over after the operands, the side pair
\* and the delay is rejected.
C6_FullConsumption == (Assembled /\ lineParts.trail = " foo") => asm.kind # "ok"

\* C7: under a mandatory (non-optional) side-set, a line without a "side N"
\* pair is rejected, whatever its mnemonic.
C7_MandatorySide ==
    (Assembled /\ HasSideSet(ctx) /\ ~SideOpt(ctx) /\ lineParts.side < 0) => asm.kind # "ok"

DelayBits(p) == 5 - SideWidth(p) - (IF SideOpt(p) THEN 1 ELSE 0)

\* the side pair of the line is what the configuration asks for
SidePartValid(p, pt) ==
    IF ~HasSideSet(p) THEN pt.side < 0
    ELSE /\ SideOpt(p) \/ pt.side >= 0
         /\ pt.side < Pow2(SideWidth(p))

\* the value of the bits above the delay in the 5-bit delay/side-set field
SideField(p, pt) ==
    IF pt.side < 0 THEN 0
    ELSE IF SideOpt(p) THEN Pow2(DelayBits(p)) * (Pow2(SideWidth(p)) + pt.side)
    ELSE Pow2(DelayBits(p)) * pt.side

\* the first delay that does not fit in D bits: 2^D, and 1 when the
\* side-set leaves no bit at all (D < 0), where only [0] fits
DelayLimit(p) == IF DelayBits(p) >= 0 THEN Pow2(DelayBits(p)) ELSE 1

\* C9: with D delay bits left by the side-set configuration, a valid line
\* with a trailing [n] assembles iff n < 2^D; the word then carries n in
\* bits 8..8+D-1, and the bits of the field above them hold the side value
\* and the optional-side flag, untouched by the delay.
C9_DelayWidth ==
    (/\ Assembled
     /\ lineParts.base \in ValidBases /\ lineParts.trail = ""
     /\ SidePartValid(ctx, lineParts) /\ lineParts.delay >= 0) =>
        /\ asm.kind = "ok" <=> lineParts.delay < DelayLimit(ctx)
        /\ (asm.kind = "ok" /\ DelayBits(ctx) >= 0) =>
              /\ And(Shr(asm.instr, 8), 31) % Pow2(DelayBits(ctx)) = lineParts.delay
              /\ And(Shr(asm.instr, 8), 31) = SideField(ctx, lineParts) + lineParts.delay

\* a delay of 3 has been assembled next to a side value under an optional
\* side-set of width 2
C9_Witness ==
    /\ Assembled /\ line = "jmp x-- 4 side 2 [3]"
    /\ SideWidth(ctx) = 2 /\ SideOpt(ctx)
    /\ asm.kind = "ok" /\ And(Shr(asm.instr, 8), 31) = 27

\* C10: a wait written without its polarity argument assembles with the
\* polarity bit (bit 7) set, as if polarity 1 had been written.
C10_DefaultPolarity ==
    (Assembled /\ lineParts.base \in WaitNoPolarity /\ asm.kind = "ok") => And(asm.instr, 128) = 128

----------------------------------------------------------------------------
(* Properties of compiling and rendering (SpecProg)                        *)

\* the word is in the jmp family
IsJmp(w) == And(w, instructions[idxJMP + 1].mask) = instructions[idxJMP + 1].bits

\* the listing of p holds a jmp to a label declared on a later line: a jmp
\* at offset i whose address a > i has names in Targets
HasForwardJump(p) ==
    \E i \in 0..(Len(p.Code) - 1) :
        /\ IsJmp(p.Code[i + 1])
        /\ And(p.Code[i + 1], 31) > i
        /\ And(p.Code[i + 1], 31) \in DOMAIN p.Targets

\* C2: compiling the rendered listing of a compiled Program that has no
\* jump to a later label succeeds and reproduces its Code and Settings.
C2_RenderCompile ==
    (mode = "prog" /\ pc = "recompiled" /\ ~HasForwardJump(prog.p)) =>
        /\ prog2.kind = "ok"
        /\ prog2.p.Code = prog.p.Code
        /\ prog2.p.Attr = prog.p.Attr

----------------------------------------------------------------------------
(* Properties of linking (SpecCat)                                         *)

Linked == mode = "cat" /\ pc = "linked"

\* the combined number of code words of the inputs ps[1..n]
RECURSIVE TotalLen(_, _)
TotalLen(ps, n) == IF n = 0 THEN 0 ELSE Len(ps[n].Code) + TotalLen(ps, n - 1)

\* the word w of an input placed at offset o, as the relocation rule states
\* it: a jmp keeps everything but its low 5 bits, which become
\* (address + o) mod 32; any other word is unchanged
Relocated(w, o) ==
    IF w \div 8192 = 0 THEN (w - (w % 32)) + (((w % 32) + o) % 32) ELSE w

\* C3: after a successful Cat the merged Code has the combined length and
\* holds, at the running offset of each input, that input's words, each
\* jmp with its address moved by the offset modulo 32.
C3_Relocation ==
    (Linked /\ cat.kind = "ok") =>
        /\ Len(cat.p.Code) = TotalLen(inputs, Len(inputs))
        /\ \A i \in 1..Len(inputs) : \A k \in 1..Len(inputs[i].Code) :
              cat.p.Code[TotalLen(inputs, i - 1) + k]
                 = Relocated(inputs[i].Code[k], TotalLen(inputs, i - 1))

\* inputs of lengths 3 and 2: the jmp to 2 at offset 1 of the second input
\* has become a jmp to 5
C3_Witness ==
    /\ Linked /\ cat.kind = "ok"
    /\ Len(inputs) = 2 /\ Len(inputs[1].Code) = 3 /\ Len(inputs[2].Code) = 2
    /\ inputs[2].Code[2] = 2
    /\ Len(cat.p.Code) = 5 /\ cat.p.Code[5] = 5

\* C4: Cat returns an error and no Program when the inputs hold more than
\* 32 code words together, and succeeds otherwise.
C4_Capacity ==
    Linked =>
        IF TotalLen(inputs, Len(inputs)) > 32
        THEN cat.kind = "err" /\ cat.p = Nil
        ELSE cat.kind = "ok" /\ ~cat.p.nil

\* three inputs of exactly 32 words together have been linked
C4_Witness ==
    /\ Linked /\ Len(inputs) = 3
    /\ TotalLen(inputs, 3) = 32
    /\ cat.kind = "ok" /\ Len(cat.p.Code) = 32

----------------------------------------------------------------------------
(* Properties of the instruction table and of Disassemble (SpecWord)       *)

Disassembled == mode = "word" /\ pc \in {"disassembled", "assembled"}

\* w satisfies mask/bits of one of the two mov descriptors
IsMovEncoding(w) ==
    \E i \in {idxMOV1, idxMOV2} :
        And(w, instructions[i + 1].mask) = instructions[i + 1].bits

\* C11: every word that disassembles as nop is an encoding of a mov
\* instruction, and so is the word that assembling that nop text returns.
C11_NopIsMov ==
    /\ (Disassembled /\ ~dis.err /\ HasPrefix(dis.text, "nop")) => IsMovEncoding(word)
    /\ (mode = "word" /\ pc = "assembled" /\ HasPrefix(line, "nop") /\ asm.kind = "ok")
          => IsMovEncoding(asm.instr)

\* the 3-bit destination field of a word
DestField(w) == (w \div 32) % 8

\* C12: a set word is refused by Disassemble when its destination field is
\* 3, 5 or 6, and is rendered with the destination name when the field is
\* pins (0), x (1), y (2), pindirs (4) or exec (7).  Stated without a
\* context, where nothing but the destination can make a set word fail.
C12_SetDestinations ==
    (Disassembled /\ ctx.nil /\ word \div 8192 = 7) =>
        IF DestField(word) \in {3, 5, 6} THEN dis.err
        ELSE /\ ~dis.err
             /\ HasPrefix(dis.text, "set\t" \o disDestinations[DestField(word) + 1] \o ", ")

----------------------------------------------------------------------------
(* Properties of NewProgram (SpecProg)                                     *)

Compiled == mode = "prog" /\ pc \in {"compiled", "rendered", "recompiled"}

\* the lines of the source text of the state
Lines == SplitLines(source)

\* the source lines that configure the program
ConfigLines ==
    {".side_set 1", ".side_set 2 opt", ".side_set 5", ".set 3",
     ".in 8 left auto 32", ".out 32 right auto 8"}

\* the source lines that are instructions
InstrLines == {"nop", "jmp a", "jmp 1", "set pins, 1", "nop side 1"}

\* the source lines that assemble or configure whatever precedes them
PlainLines == ConfigLines \cup {".program a", "nop", "jmp 1", "set pins, 1"}

\* some configuration line follows an instruction line
ConfigAfterCode ==
    \E i, j \in 1..Len(Lines) : i < j /\ Lines[i] \in InstrLines /\ Lines[j] \in ConfigLines

\* a mandatory side-set is declared and an instruction, written without a
\* side value, follows
SideValueMissing ==
    /\ \E i \in 1..Len(Lines) : Lines[i] \in {".side_set 1", ".side_set 5"}
    /\ \E i \in 1..Len(Lines) : Lines[i] \in InstrLines

\* C13: a .side_set, .set, .in or .out line after an instruction makes
\* NewProgram fail with an error; in-range configuration lines that all
\* precede the first instruction are accepted.
C13_ConfigBeforeCode ==
    Compiled =>
        /\ ConfigAfterCode => prog.kind = "err"
        /\ (/\ \A i \in 1..Len(Lines) : Lines[i] \in PlainLines
            /\ ~ConfigAfterCode /\ ~SideValueMissing)
              => prog.kind = "ok"

\* a .set line after a nop has been refused
C13_Witness == Compiled /\ source = "nop\n.set 3" /\ prog.kind = "err"

\* the numbers of the lines that read text
LinesOf(text) == {i \in 1..Len(Lines) : Lines[i] = text}

\* C14: a second .wrap line makes NewProgram fail, and so does a second
\* .wrap_target line, at any code offset including offset 0.
C14_WrapOnce ==
    (Compiled /\ \E d \in {".wrap", ".wrap_target"} : Cardinality(LinesOf(d)) >= 2)
        => prog.kind = "err"

\* the number of instruction lines before line j
CodeBefore(j) == Cardinality({i \in 1..(j - 1) : Lines[i] \in InstrLines})

\* the one line that reads text
TheLine(text) == CHOOSE i \in LinesOf(text) : TRUE

\* C15: after a successful NewProgram, Wrap is the number of instructions
\* before the .wrap line minus one, or len(Code) without a .wrap line, and
\* WrapTarget is the number of instructions before the .wrap_target line,
\* or 0 without one.
C15_WrapValues ==
    (/\ Compiled /\ prog.kind = "ok"
     /\ Cardinality(LinesOf(".wrap")) <= 1 /\ Cardinality(LinesOf(".wrap_target")) <= 1) =>
        /\ prog.p.Attr.Wrap =
              IF LinesOf(".wrap") # {} THEN Sub16(CodeBefore(TheLine(".wrap")), 1)
              ELSE Len(prog.p.Code)
        /\ prog.p.Attr.WrapTarget =
              IF LinesOf(".wrap_target") # {} THEN CodeBefore(TheLine(".wrap_target"))
              ELSE 0

\* the label names that source lines declare
LabelNames == {"a", "b"}

\* C16: a line NAME: binds NAME to the number of instructions assembled so
\* far, and NewProgram fails when NAME is declared a second time; a
\* compiled Program holds exactly the declared names, each with the offset
\* of its one declaration.
C16_Labels ==
    Compiled =>
        /\ (\E n \in LabelNames : Cardinality(LinesOf(n \o ":")) >= 2) => prog.kind = "err"
        /\ prog.kind = "ok" =>
              /\ DOMAIN prog.p.Labels = {n \in LabelNames : LinesOf(n \o ":") # {}}
              /\ \A n \in DOMAIN prog.p.Labels :
                    prog.p.Labels[n] = CodeBefore(TheLine(n \o ":"))

\* a second declaration of the label a has been refused
C16_Witness == Compiled /\ source = "a:\nnop\na:" /\ prog.kind = "err"

\* some jmp a line precedes every declaration of a
ForwardJump ==
    \E i \in LinesOf("jmp a") : \A j \in LinesOf("a:") : i < j

\* C17: NewProgram fails on a source in which a jmp names a label declared
\* on a later line (or nowhere); a jmp that names a label declared on an
\* earlier line assembles with the label's offset as its address.
C17_SinglePass ==
    Compiled =>
        /\ ForwardJump => prog.kind = "err"
        /\ (/\ ~ForwardJump /\ Cardinality(LinesOf("a:")) = 1
            /\ \A i \in 1..Len(Lines) : Lines[i] \in {"a:", "jmp a", "nop"})
              => prog.kind = "ok"
        /\ prog.kind = "ok" =>
              \A i \in LinesOf("jmp a") :
                  prog.p.Code[CodeBefore(i) + 1] = prog.p.Labels["a"]

\* a jmp to the label a, declared one instruction earlier, has been assembled
C17_Witness ==
    Compiled /\ source = "nop\na:\njmp a" /\ prog.kind = "ok" /\ prog.p.Code[2] = 1

\* C18: in every Program that NewProgram returns, SideSet <= 5, and
\* SideSet <= 4 when SideSetOpt is set.
C18_SideSetRange ==
    (Compiled /\ prog.kind = "ok") =>
        /\ prog.p.Attr.SideSet <= 5
        /\ prog.p.Attr.SideSetOpt => prog.p.Attr.SideSet <= 4

----------------------------------------------------------------------------
(* Properties of the linked program's labels (SpecCat)                     *)

\* the names that Labels of p maps to offset a
NamesAt(p, a) == {n \in DOMAIN p.Labels : p.Labels[n] = a}

\* Targets of p lists, per offset, exactly the names of that offset, ascending
SortedInverse(p) ==
    /\ DOMAIN p.Targets = {p.Labels[n] : n \in DOMAIN p.Labels}
    /\ \A a \in DOMAIN p.Targets :
          /\ {p.Targets[a][i] : i \in 1..Len(p.Targets[a])} = NamesAt(p, a)
          /\ \A i, j \in 1..Len(p.Targets[a]) : i < j => StrLess(p.Targets[a][i], p.Targets[a][j])

\* the smallest of the names S in Go's string order
LeastName(S) == CHOOSE n \in S : \A m \in S : n = m \/ StrLess(n, m)

\* the listing line of the jmp word w under the labels of p
JmpLine(p, w) ==
    "\tjmp\t"
      \o (IF (w \div 32) % 8 = 0 THEN "" ELSE disCondition[((w \div 32) % 8) + 1] \o " ")
      \o (IF NamesAt(p, w % 32) # {} THEN LeastName(NamesAt(p, w % 32)) ELSE Sprint(w % 32))

IsJmpLine(l) == HasPrefix(l, "\tjmp\t")

IsJmpWord(w) == w \div 8192 = 0

Listed == mode = "cat" /\ pc = "listed" /\ listing.kind = "ok"

\* C19: the Targets of every program NewProgram returned and of the program
\* Cat returned is the inverse of its Labels with each list of names in
\* ascending order, and the listing of the linked program shows every jmp
\* with the smallest name of its address, or the decimal address if the
\* address has no name
C19_LabelDeterminism ==
    /\ mode = "cat" => \A i \in DOMAIN inputs : SortedInverse(inputs[i])
    /\ (mode = "cat" /\ pc \in {"linked", "listed"} /\ cat.kind = "ok") => SortedInverse(cat.p)
    /\ Listed =>
          SelectSeq(listing.lines, IsJmpLine)
            = [k \in 1..Len(SelectSeq(cat.p.Code, IsJmpWord)) |->
                  JmpLine(cat.p, SelectSeq(cat.p.Code, IsJmpWord)[k])]

\* two names on one offset, a jmp to it and a jmp to an offset without a name
C19_Witness ==
    /\ Listed
    /\ \E k, h \in 1..Len(cat.p.Code) :
          /\ IsJmpWord(cat.p.Code[k])
          /\ Cardinality(NamesAt(cat.p, cat.p.Code[k] % 32)) >= 2
          /\ IsJmpWord(cat.p.Code[h])
          /\ NamesAt(cat.p, cat.p.Code[h] % 32) = {}

\* the prefix Cat gives the names of input i (the Go index is i - 1)
EntryPrefix(i) == inputs[i].Attr.Name \o Sprint(i - 1) \o "_"

\* the entries <<name, offset>> the merged Labels is to hold for input i
EntriesOf(i) ==
    {<<EntryPrefix(i) \o "origin", TotalLen(inputs, i - 1) + inputs[i].Attr.Origin>>,
     <<EntryPrefix(i) \o "wrap", TotalLen(inputs, i - 1) + inputs[i].Attr.Wrap>>,
     <<EntryPrefix(i) \o "wrap_target", TotalLen(inputs, i - 1) + inputs[i].Attr.WrapTarget>>}
      \cup {<<EntryPrefix(i) \o L, TotalLen(inputs, i - 1) + inputs[i].Labels[L]>> :
               L \in DOMAIN inputs[i].Labels}

Entries == UNION {EntriesOf(i) : i \in 1..Len(inputs)}

\* the names Cat itself gives to the origin and the wrap points of an input
SyntheticNames == {"origin", "wrap", "wrap_target"}

\* C20: after a successful Cat the merged Labels holds, for every input, its
\* origin, wrap and wrap_target entries and each of its labels under the
\* input's prefix, all moved by the input's running offset, and no other
\* entry
C20_LinkerLabels ==
    (Linked /\ cat.kind = "ok") =>
        /\ \A e \in Entries : e[1] \in DOMAIN cat.p.Labels /\ cat.p.Labels[e[1]] = e[2]
        /\ DOMAIN cat.p.Labels = {e[1] : e \in Entries}

\* the same statement for inputs none of whose labels carries a name that
\* Cat gives to its own entries
C20_DistinctNames ==
    (Linked /\ cat.kind = "ok" /\ \A i \in 1..Len(inputs) : DOMAIN inputs[i].Labels \cap SyntheticNames = {})
        => /\ \A e \in Entries : e[1] \in DOMAIN cat.p.Labels /\ cat.p.Labels[e[1]] = e[2]
           /\ DOMAIN cat.p.Labels = {e[1] : e \in Entries}

----------------------------------------------------------------------------
(* Properties of Disassemble and Assemble on literal inputs                *)

\* the known words and their texts, as <<word, text>>
DecodeVectors ==
    {<<32928, "pull\tblock">>, <<24640, "out\ty, 32">>, <<40994, "mov\tx, y">>,
     <<57345, "set\tpins, 1">>, <<57344, "set\tpins, 0">>, <<57411, "set\ty, 3">>,
     <<68, "jmp\tx-- 4">>, <<130, "jmp\ty-- 2">>, <<41155, "mov\tisr, null">>,
     <<41003, "mov\tx, !null">>, <<41161, "mov\tisr, !x">>,
     <<32784, "mov\trxfifo[y], isr">>, <<32792, "mov\trxfifo[0], isr">>,
     <<32920, "mov\tosr, rxfifo[0]">>}

\* C21: with no context, Disassemble of each known word succeeds and returns
\* exactly the text listed for it
C21_DecodeVectors ==
    (Disassembled /\ ctx.nil) =>
        \A v \in DecodeVectors : word = v[1] => (~dis.err /\ dis.text = v[2])

\* the word 0x6040, whose bit count of 0 is shown as 32, has been decoded
C21_Witness ==
    /\ Disassembled /\ ctx.nil
    /\ word = 24640
    /\ dis.text = "out\ty, 32"

LineDone == mode = "line" /\ pc = "assembled"

\* a "//" or ";" comment of l starts at offset c
CommentAt(l, c) ==
    c < Len(l) /\ (CharAt(l, c) = ";" \/ (c + 2 <= Len(l) /\ Slice(l, c, c + 2) = "//"))

\* l holds separators only, up to its end or to the start of a comment
NoToken(l) ==
    \E c \in 0..Len(l) :
        /\ c = Len(l) \/ CommentAt(l, c)
        /\ \A i \in 0..(c - 1) : CharAt(l, i) \in SepChars

\* C22: Assemble of a line without a token (empty, blank, comment only,
\* blank then comment) returns ErrEmpty
C22_EmptyLine ==
    (LineDone /\ NoToken(line)) => (asm.kind = "err" /\ asm.err = "ErrEmpty")

\* the same statement for the line of length 0 alone
C22_EmptyString ==
    (LineDone /\ line = "") => (asm.kind = "err" /\ asm.err = "ErrEmpty")

\* the line of the parts pt without its trailing text
PlainLine(pt) == ComposeLine([pt EXCEPT !.trail = ""])

\* C23: when Assemble succeeds on a line with word w, Assemble of that line
\* followed by a space and a comment succeeds with the same word w
C23_CommentsStripped ==
    [][(mode = "line" /\ pc = "start" /\ lineParts.trail = " // c"
          /\ Assemble(PlainLine(lineParts), ctx).kind = "ok")
        => (asm'.kind = "ok" /\ asm'.instr = Assemble(PlainLine(lineParts), ctx).instr)]_vars

\* the same statement for lines that end in an operand of the instruction
\* or in a delay, that is, lines other than nop without a side pair
C23_AfterOperand ==
    [][(mode = "line" /\ pc = "start" /\ lineParts.trail = " // c"
          /\ lineParts.base # "nop" /\ (lineParts.side < 0 \/ lineParts.delay >= 0)
          /\ Assemble(PlainLine(lineParts), ctx).kind = "ok")
        => (asm'.kind = "ok" /\ asm'.instr = Assemble(PlainLine(lineParts), ctx).instr)]_vars

\* the family of w: its three high bits
Family(w) == w \div 8192

\* the bits lo..hi of w as a number
Field(w, lo, hi) == (w \div Pow2(lo)) % Pow2(hi - lo + 1)

\* w satisfies mask/bits of the descriptor with 0-based index i
MatchesDescriptor(w, i) == And(w, instructions[i + 1].mask) = instructions[i + 1].bits

\* the words that Disassemble is to refuse when it has no context
DecodeFailure(w) ==
    \/ \A i \in 0..(NumInstructions - 1) : ~MatchesDescriptor(w, i)
    \/ Family(w) = 1 /\ Field(w, 5, 6) = 3 /\ Field(w, 2, 4) # 0
    \/ Family(w) = 2 /\ Field(w, 5, 7) \in {4, 5}
    \/ Family(w) = 5 /\ (Field(w, 3, 4) = 3 \/ Field(w, 0, 2) = 4)
    \/ MatchesDescriptor(w, idxMOV1) /\ Field(w, 3, 3) = 0 /\ Field(w, 0, 2) # 0

\* C24: with no context, Disassemble of a word outside the set family fails
\* exactly on the words of DecodeFailure
C24_DecodeFailures ==
    (Disassembled /\ ctx.nil /\ Family(word) # 7) => (dis.err <=> DecodeFailure(word))

\* a register mov with source field 0b100 has been refused
C24_Witness ==
    /\ Disassembled /\ ctx.nil /\ dis.err
    /\ Family(word) = 5 /\ Field(word, 3, 4) # 3 /\ Field(word, 0, 2) = 4

\* the names a mov may take its value from
MovSourceNames == {"pins", "x", "y", "null", "status", "isr", "osr"}

\* the source token tok without its "!" or "::" operator
SourceName(tok) ==
    IF HasPrefix(tok, "!") THEN Slice(tok, 1, Len(tok))
    ELSE IF HasPrefix(tok, "::") THEN Slice(tok, 2, Len(tok))
    ELSE tok

\* the instruction text b is a mov between registers whose source is not a
\* source name
BadMovSource(b) ==
    /\ Len(Tokens(b)) = 3
    /\ Tokens(b)[1] = "mov"
    /\ ~HasPrefix(Tokens(b)[2], "rxfifo[") /\ ~HasPrefix(Tokens(b)[3], "rxfifo[")
    /\ SourceName(Tokens(b)[3]) \notin MovSourceNames

\* C25: Assemble returns an error for a mov whose source is not one of the
\* mov source names
C25_MovSource ==
    (LineDone /\ BadMovSource(lineParts.base)) => asm.kind = "err"

\* the decoding d of the word w reads back as w under the context p
ReadsBack(d, w, p) ==
    /\ ~d.err
    /\ Assemble(d.text, p).kind = "ok"
    /\ Assemble(d.text, p).instr = w

\* C26: a word that Assemble returned decodes under the same context, and
\* the decoded text assembles to that word again
C26_EncodeDecode ==
    (LineDone /\ asm.kind = "ok") => ReadsBack(Disassemble(asm.instr, ctx), asm.instr, ctx)

\* the same statement with no context, for the instruction texts that parse
\* in full
C26_ValidBases ==
    (LineDone /\ asm.kind = "ok" /\ ctx.nil /\ lineParts.base \in ValidBases
        /\ lineParts.trail = "" /\ lineParts.side < 0)
        => ReadsBack(Disassemble(asm.instr, ctx), asm.instr, ctx)

\* 0-based position of the name tok in table, 0 if table does not hold it
NamedIn(table, tok) ==
    IF \E j \in 1..Len(table) : table[j] = tok
    THEN (CHOOSE j \in 1..Len(table) : table[j] = tok) - 1
    ELSE 0

\* the instruction text b is a jmp or a set
JmpOrSet(b) == Len(Tokens(b)) >= 2 /\ Tokens(b)[1] \in {"jmp", "set"}

\* C27: the word of a successfully assembled jmp or set line is of the jmp
\* resp. set family and its bits 5..7 hold the condition resp. destination
\* that the line names, whatever the numeric operand is
C27_OperandContainment ==
    (LineDone /\ asm.kind = "ok" /\ JmpOrSet(lineParts.base)) =>
        IF Tokens(lineParts.base)[1] = "jmp"
        THEN /\ Family(asm.instr) = 0
             /\ Field(asm.instr, 5, 7) = NamedIn(disCondition, Tokens(lineParts.base)[2])
        ELSE /\ Family(asm.instr) = 7
             /\ Field(asm.instr, 5, 7) = NamedIn(disDestinations, Tokens(lineParts.base)[2])

\* the same statement for the lines whose numeric operand is below 32, in
\* the contexts whose side-set and enable bit fit the 5-bit field
C27_SmallOperand ==
    (LineDone /\ asm.kind = "ok" /\ JmpOrSet(lineParts.base) /\ lineParts.base # "set pins, 32"
        /\ (ctx.nil \/ ~ctx.Attr.SideSetOpt \/ ctx.Attr.SideSet < MaxSideSet)) =>
        IF Tokens(lineParts.base)[1] = "jmp"
        THEN /\ Family(asm.instr) = 0
             /\ Field(asm.instr, 5, 7) = NamedIn(disCondition, Tokens(lineParts.base)[2])
        ELSE /\ Family(asm.instr) = 7
             /\ Field(asm.instr, 5, 7) = NamedIn(disDestinations, Tokens(lineParts.base)[2])

\* C28: a call of Assemble that returns an error leaves the Program it was
\* given as it was, and a call that changes the Program returns a word
C28_NoEffectOnError ==
    [][(mode = "line" /\ pc = "start")
        => /\ asm'.kind = "err" => ctx' = ctx
           /\ ctx' # ctx => asm'.kind = "ok"]_vars

\* the same statement for the lines that are not a set of pins
C28_NotSetPins ==
    [][(mode = "line" /\ pc = "start" /\ ~HasPrefix(line, "set pins"))
        => /\ asm'.kind = "err" => ctx' = ctx
           /\ ctx' # ctx => asm'.kind = "ok"]_vars

----------------------------------------------------------------------------
(* Properties of the offsets of a compiled and of a linked program         *)

\* C29: in a Program that NewProgram returned, every label offset, Origin,
\* Wrap and WrapTarget is at most the number of code words
C29_ProgramBounds ==
    (Compiled /\ prog.kind = "ok") =>
        /\ \A n \in DOMAIN prog.p.Labels : prog.p.Labels[n] <= Len(prog.p.Code)
        /\ prog.p.Attr.Origin <= Len(prog.p.Code)
        /\ prog.p.Attr.Wrap <= Len(prog.p.Code)
        /\ prog.p.Attr.WrapTarget <= Len(prog.p.Code)

\* a program with code, a label and a wrap target at its end, and a .wrap
\* line of its own
C29_Witness ==
    /\ Compiled /\ prog.kind = "ok"
    /\ source = "nop\n.wrap\na:"
    /\ Len(prog.p.Code) = 1
    /\ prog.p.Labels["a"] = 1
    /\ prog.p.Attr.Wrap = 0

\* word k of input i is a jmp to the offset of that input's label L
JumpsTo(i, k, L) ==
    /\ IsJmpWord(inputs[i].Code[k])
    /\ inputs[i].Code[k] % 32 = inputs[i].Labels[L]

\* C30: after a successful Cat, a jmp of an input that went to the offset of
\* one of the input's labels goes, in the merged Code, to the value that
\* the merged Labels gives the renamed label
C30_JumpsFollowLabels ==
    (Linked /\ cat.kind = "ok") =>
        \A i \in 1..Len(inputs) : \A L \in DOMAIN inputs[i].Labels :
            \A k \in 1..Len(inputs[i].Code) :
                JumpsTo(i, k, L) =>
                    cat.p.Code[TotalLen(inputs, i - 1) + k] % 32
                        = cat.p.Labels[EntryPrefix(i) \o L]

\* the same statement for the labels that the merge leaves below 32
C30_BelowCapacity ==
    (Linked /\ cat.kind = "ok") =>
        \A i \in 1..Len(inputs) : \A L \in DOMAIN inputs[i].Labels :
            \A k \in 1..Len(inputs[i].Code) :
                (JumpsTo(i, k, L) /\ TotalLen(inputs, i - 1) + inputs[i].Labels[L] < 32) =>
                    cat.p.Code[TotalLen(inputs, i - 1) + k] % 32
                        = cat.p.Labels[EntryPrefix(i) \o L]

====
